---- MODULE Spec2Model ----
(***************************************************************************)
(* Block-error estimators of AG_QECC_HCF.                                  *)
(*                                                                         *)
(*   simulation.py          approximate_block_error, monte_carlo_block_error*)
(*   ag_qecc_simulation.py  block_error                                    *)
(*                                                                         *)
(* Numbers.  Python floats are modelled by exact rationals on a grid.      *)
(* A probability (p, p_xz, a value of random.random()) is an integer count *)
(* of grid steps of size 1/Unit, so 1.0 is Unit and p / 2.0 is p \div 2    *)
(* (p is always an even count, so the halving is exact).  A tail sum of a  *)
(* call with n qubits is an integer count of steps of size 1/Unit^n        *)
(* (Scale(n) is the value 1.0 on that scale): every term                   *)
(* C(n,k) * p_xz^k * (1 - p_xz)^(n-k) has exactly n grid factors.          *)
(* A ratio failures / trials is the pair <<failures, trials>>.             *)
(* Spec and SpecMC compute in these exact numbers: they give the real      *)
(* value of every expression, without the rounding of IEEE doubles.        *)
(*                                                                         *)
(* SpecFloat runs approximate_block_error in IEEE 754 binary64: +, -, *,  *)
(* / and <= of lines 41-48 round bit for bit as the code's do, and ** is   *)
(* the C library's pow, which returns the exact power or one of the two    *)
(* doubles next to it.                                                     *)
(***************************************************************************)
EXTENDS Integers, Sequences, FiniteSets

\* ---------------------------------------------------------------- bounds
\* largest qubit count n of an analytic call
MaxN == 3
\* grid: p ranges over multiples of 1/PD, from -1/PD to 1 + 1/PD
PD == 4
\* largest qubit count n of a Monte Carlo call
MCMaxN == 2
\* largest trial count of a Monte Carlo call
MaxTrials == 2
\* largest number of random.random() calls of one call running alone
MaxDraws == 8
\* largest number of random.random() calls of two interleaved calls together
MaxDrawsTwo == 6

\* the value 1.0 in grid steps
Unit == 2 * PD
\* the values of p that are tried: -1/PD, 0, 1/PD, ..., 1, 1 + 1/PD
PValues == {2 * j : j \in -1..(PD + 1)}

VARIABLES
  \* ---- one call of an analytic estimator (a stack frame)
  fn,       \* which function is called
  n, t, p,  \* its arguments
  p_xz,     \* local p_xz
  k,        \* loop variable of "for k in range(t + 1, n + 1)"
  tail,     \* local tail
  pc,       \* position: "idle" | "start" | "loop" | "done" | "raised"
  result,   \* the returned value, on the scale of Scale(n)
  prev,     \* the outcome of the previous call with the same n and t
  \* ---- Monte Carlo calls and the module-level generator of `random`
  mc,       \* worker -> stack frame of its monte_carlo_block_error call
  stream,   \* the values the module-level generator has produced so far
  log,      \* worker -> the values its random.random() calls returned
  \* ---- one call of approximate_block_error in binary64
  fl        \* its stack frame: n, t, p, p_xz, k, tail, pc, result, prev,
            \* and libm, the values pow has returned to it

vars == <<fn, n, t, p, p_xz, k, tail, pc, result, prev, mc, stream, log, fl>>
avars == <<fn, n, t, p, p_xz, k, tail, pc, result, prev>>
mvars == <<mc, stream, log>>

\* ------------------------------------------------------- pure arithmetic
\* b ** e for an integer e >= 0 (0 ** 0 is 1, as in Python)
RECURSIVE Pow(_, _)
Pow(b, e) == IF e <= 0 THEN 1 ELSE b * Pow(b, e - 1)

\* the value 1.0 on the scale of an n-qubit tail sum
Scale(nn) == Pow(Unit, nn)

\* variant of comb: math.perm in place of math.comb
RECURSIVE perm(_, _)
perm(nn, kk) ==
  IF kk > nn THEN 0
  ELSE IF kk = 0 THEN 1
  ELSE perm(nn - 1, kk - 1) * nn

\* math.comb(n, k): exact integer, 0 when k > n
RECURSIVE comb(_, _)
comb(nn, kk) ==
  IF kk > nn THEN 0
  ELSE IF kk = 0 THEN 1
  ELSE (comb(nn - 1, kk - 1) * nn) \div kk

\* variant of ValidP: only the upper end is checked
ValidOnlyAbove(pp) == pp <= Unit

\* 0.0 <= p <= 1.0
ValidP(pp) == 0 <= pp /\ pp <= Unit

\* p / 2.0
Half(pp) == pp \div 2

\* variant of term: exponent n - k - 1 (rescaled to n grid factors)
termShort(nn, kk, q) == comb(nn, kk) * Pow(q, kk) * Pow(Unit - q, nn - kk - 1) * Unit

\* math.comb(n, k) * (p_xz ** k) * ((1 - p_xz) ** (n - k))
term(nn, kk, q) == comb(nn, kk) * Pow(q, kk) * Pow(Unit - q, nn - kk)

\* variant of range_first: range(t, n + 1)
range_first_off(tt) == tt

\* first value of range(t + 1, n + 1)
range_first(tt) == tt + 1

\* sum(term for k in range(first, n + 1))
RECURSIVE prob_x(_, _, _)
prob_x(nn, first, q) ==
  IF first > nn THEN 0 ELSE term(nn, first, q) + prob_x(nn, first + 1, q)

\* block_error(n, t, p) of ag_qecc_simulation.py
block_error(nn, tt, pp) == 2 * prob_x(nn, range_first(tt), Half(pp))

\* ------------------------------------------------------ analytic actions
NoPrev == [p |-> 0, status |-> "none", result |-> 0]

Functions == {"approximate_block_error", "block_error"}

\* approximate_block_error: the argument check and the locals before the loop
Validate ==
  /\ pc = "start" /\ fn = "approximate_block_error"
  /\ IF ~ValidP(p)
       THEN pc' = "raised" /\ UNCHANGED <<p_xz, tail, k>>
       ELSE /\ p_xz' = Half(p)
            /\ tail' = 0
            /\ k' = range_first(t)
            /\ pc' = "loop"
  /\ UNCHANGED <<fn, n, t, p, result, prev, mvars, fl>>

\* one iteration of "for k in range(t + 1, n + 1): tail += ..."
LoopStep ==
  /\ pc = "loop" /\ k <= n
  /\ tail' = tail + term(n, k, p_xz)
  /\ k' = k + 1
  /\ UNCHANGED <<fn, n, t, p, p_xz, pc, result, prev, mvars, fl>>

\* the range is exhausted: return 2 * tail
Return ==
  /\ pc = "loop" /\ k > n
  /\ result' = 2 * tail
  /\ pc' = "done"
  /\ UNCHANGED <<fn, n, t, p, p_xz, k, tail, prev, mvars, fl>>

\* block_error: no argument check, one expression
BlockError ==
  /\ pc = "start" /\ fn = "block_error"
  /\ p_xz' = Half(p)
  /\ result' = block_error(n, t, p)
  /\ pc' = "done"
  /\ UNCHANGED <<fn, n, t, p, k, tail, prev, mvars, fl>>

\* the caller calls the same function again with the same n, t and another p
\* (demo, code_summary: "for p in p_values"); the frame is fresh
CallAgain ==
  /\ pc \in {"done", "raised"}
  /\ \E q \in PValues :
       /\ p' = q
       /\ prev' = [p |-> p, status |-> pc, result |-> result]
  /\ pc' = "start"
  /\ p_xz' = 0 /\ k' = 0 /\ tail' = 0 /\ result' = 0
  /\ UNCHANGED <<fn, n, t, mvars, fl>>

\* ---------------------------------------------------------- Monte Carlo
Workers == {1, 2}

\* The values a random.random() call returns in the state machine, out of
\* [0.0, 1.0): 0.0, 0.5 and the largest grid value below 1.0.  Every p_xz the
\* model is run with is at most (PD + 1) / Unit < (Unit - 1) / Unit, so for
\* every p_xz > 0, valid or not, both outcomes of "random.random() < p_xz"
\* occur (0.0 is below it, the largest value is not), and for p_xz <= 0 only
\* "no error" occurs, as in the code.
DrawSet == {0, PD, Unit - 1}

IdleFrame == [n |-> 0, t |-> 0, p |-> 0, trials |-> 0, pc |-> "idle",
              failures |-> 0, p_xz |-> 0, rep |-> 0, i |-> 0,
              x_errors |-> 0, z_errors |-> 0, ret |-> <<0, 1>>]

\* the frame of monte_carlo_block_error(n, t, p, trials) on entry
Frame(nn, tt, pp, tr) ==
  [IdleFrame EXCEPT !.n = nn, !.t = tt, !.p = pp, !.trials = tr, !.pc = "start"]

\* variant of bad_trials: trials < 0
bad_trials_strict(tr) == tr < 0

\* trials <= 0
bad_trials(tr) == tr <= 0

\* variant of bernoulli: random.random() <= p_xz
bernoulli_le(u, q) == u <= q

\* random.random() < p_xz
bernoulli(u, q) == u < q

\* variant of trial_failure: both channels must exceed t
trial_failure_and(x, z, tt) == x > tt /\ z > tt

\* x_errors > t or z_errors > t
trial_failure(x, z, tt) == x > tt \/ z > tt

\* the check of trials, then failures = 0 and p_xz = p / 2.0
MCStart(w) ==
  /\ mc[w].pc = "start"
  /\ IF bad_trials(mc[w].trials)
       THEN mc' = [mc EXCEPT ![w].pc = "raised"]
       ELSE mc' = [mc EXCEPT ![w].failures = 0,
                             ![w].p_xz = Half(mc[w].p),
                             ![w].rep = 0,
                             ![w].pc = "for"]
  /\ UNCHANGED <<avars, stream, log, fl>>

\* "for _ in range(trials)": the next repetition begins
MCFor(w) ==
  /\ mc[w].pc = "for" /\ mc[w].rep < mc[w].trials
  /\ mc' = [mc EXCEPT ![w].x_errors = 0, ![w].i = 0, ![w].pc = "x"]
  /\ UNCHANGED <<avars, stream, log, fl>>

\* one element of sum(random.random() < p_xz for _ in range(n)), X channel;
\* the call advances the module-level generator
MCDrawX(w) ==
  /\ mc[w].pc = "x" /\ mc[w].i < mc[w].n
  /\ \E u \in DrawSet :
       /\ stream' = Append(stream, u)
       /\ log' = [log EXCEPT ![w] = Append(log[w], u)]
       /\ mc' = [mc EXCEPT
            ![w].x_errors = mc[w].x_errors + (IF bernoulli(u, mc[w].p_xz) THEN 1 ELSE 0),
            ![w].i = mc[w].i + 1]
  /\ UNCHANGED <<avars, fl>>

\* the X sum is complete; the Z sum begins
MCEndX(w) ==
  /\ mc[w].pc = "x" /\ mc[w].i >= mc[w].n
  /\ mc' = [mc EXCEPT ![w].z_errors = 0, ![w].i = 0, ![w].pc = "z"]
  /\ UNCHANGED <<avars, stream, log, fl>>

\* one element of the Z channel's sum
MCDrawZ(w) ==
  /\ mc[w].pc = "z" /\ mc[w].i < mc[w].n
  /\ \E u \in DrawSet :
       /\ stream' = Append(stream, u)
       /\ log' = [log EXCEPT ![w] = Append(log[w], u)]
       /\ mc' = [mc EXCEPT
            ![w].z_errors = mc[w].z_errors + (IF bernoulli(u, mc[w].p_xz) THEN 1 ELSE 0),
            ![w].i = mc[w].i + 1]
  /\ UNCHANGED <<avars, fl>>

\* the Z sum is complete: "if x_errors > t or z_errors > t: failures += 1"
MCIf(w) ==
  /\ mc[w].pc = "z" /\ mc[w].i >= mc[w].n
  /\ mc' = [mc EXCEPT
       ![w].failures = mc[w].failures +
          (IF trial_failure(mc[w].x_errors, mc[w].z_errors, mc[w].t) THEN 1 ELSE 0),
       ![w].rep = mc[w].rep + 1,
       ![w].pc = "for"]
  /\ UNCHANGED <<avars, stream, log, fl>>

\* the loop is over: return failures / trials
MCReturn(w) ==
  /\ mc[w].pc = "for" /\ mc[w].rep >= mc[w].trials
  /\ mc' = [mc EXCEPT ![w].ret = <<mc[w].failures, mc[w].trials>>, ![w].pc = "done"]
  /\ UNCHANGED <<avars, stream, log, fl>>

\* ------------------------------------------------- IEEE 754 binary64
\* The doubles of approximate_block_error.  A natural number is
\* a little-endian sequence of limbs below Base with no leading zero limb
\* (<<>> is 0).  A double is [s, m, e] with value s * m * 2^e, where m is 0
\* or has exactly Precision bits; the doubles that occur are zero or normal,
\* and every arithmetic operand is non-negative.
LimbBits == 15
Base == 2 ^ LimbBits
\* bits of the significand of a double
Precision == 53

RECURSIVE BNorm(_)
BNorm(a) ==
  IF a = <<>> THEN a
  ELSE IF a[Len(a)] = 0 THEN BNorm(SubSeq(a, 1, Len(a) - 1)) ELSE a

Limb(a, i) == IF i <= Len(a) THEN a[i] ELSE 0

Zeros(c) == [j \in 1..c |-> 0]

RECURSIVE BAddFrom(_, _, _, _)
BAddFrom(a, b, i, c) ==
  IF i > Len(a) /\ i > Len(b)
    THEN (IF c = 0 THEN <<>> ELSE <<c>>)
    ELSE LET s == Limb(a, i) + Limb(b, i) + c
         IN <<s % Base>> \o BAddFrom(a, b, i + 1, s \div Base)

\* a + b
BAdd(a, b) == BNorm(BAddFrom(a, b, 1, 0))

RECURSIVE BSubFrom(_, _, _, _)
BSubFrom(a, b, i, c) ==
  IF i > Len(a) THEN <<>>
  ELSE LET d == Limb(a, i) - Limb(b, i) - c
       IN IF d < 0 THEN <<d + Base>> \o BSubFrom(a, b, i + 1, 1)
                   ELSE <<d>> \o BSubFrom(a, b, i + 1, 0)

\* a - b, for a >= b
BSub(a, b) == BNorm(BSubFrom(a, b, 1, 0))

RECURSIVE BMulSmallFrom(_, _, _, _)
BMulSmallFrom(a, d, i, c) ==
  IF i > Len(a)
    THEN (IF c = 0 THEN <<>> ELSE <<c>>)
    ELSE LET s == a[i] * d + c
         IN <<s % Base>> \o BMulSmallFrom(a, d, i + 1, s \div Base)

\* a * d, for a limb d
BMulSmall(a, d) == BNorm(BMulSmallFrom(a, d, 1, 0))

RECURSIVE BMulFrom(_, _, _)
BMulFrom(a, b, i) ==
  IF i > Len(b) THEN <<>>
  ELSE BAdd(Zeros(i - 1) \o BMulSmall(a, b[i]), BMulFrom(a, b, i + 1))

\* a * b
BMul(a, b) == BNorm(BMulFrom(a, b, 1))

\* a ** e
RECURSIVE BPow(_, _)
BPow(a, e) == IF e <= 0 THEN <<1>> ELSE BMul(a, BPow(a, e - 1))

RECURSIVE BLessFrom(_, _, _)
BLessFrom(a, b, i) ==
  IF i = 0 THEN FALSE
  ELSE IF a[i] # b[i] THEN a[i] < b[i] ELSE BLessFrom(a, b, i - 1)

\* a < b
BLess(a, b) == IF Len(a) # Len(b) THEN Len(a) < Len(b) ELSE BLessFrom(a, b, Len(a))

RECURSIVE Bits(_)
Bits(x) == IF x = 0 THEN 0 ELSE 1 + Bits(x \div 2)

\* number of bits of a
BitLen(a) == IF a = <<>> THEN 0 ELSE LimbBits * (Len(a) - 1) + Bits(a[Len(a)])

\* a * 2^sh
Shl(a, sh) == BNorm(Zeros(sh \div LimbBits) \o BMulSmall(a, 2 ^ (sh % LimbBits)))

RECURSIVE BDivSmallFrom(_, _, _, _)
BDivSmallFrom(a, d, i, r) ==
  IF i = 0 THEN <<>>
  ELSE LET v == r * Base + a[i]
       IN BDivSmallFrom(a, d, i - 1, v % d) \o <<v \div d>>

\* floor(a / 2^sh)
Shr(a, sh) ==
  LET w == sh \div LimbBits
      hi == IF w >= Len(a) THEN <<>> ELSE SubSeq(a, w + 1, Len(a))
  IN BNorm(BDivSmallFrom(hi, 2 ^ (sh % LimbBits), Len(hi), 0))

FZero == [s |-> 1, m |-> <<>>, e |-> 0]

\* the double nearest to m * 2^e, ties to even (round-half-even, the IEEE
\* default rounding of every Python float operation)
RoundTo(m, e) ==
  IF m = <<>> THEN FZero
  ELSE LET len == BitLen(m) IN
    IF len <= Precision
      THEN [s |-> 1, m |-> Shl(m, Precision - len), e |-> e - (Precision - len)]
      ELSE LET sh == len - Precision
               q == Shr(m, sh)
               r == BSub(m, Shl(q, sh))
               half == Shl(<<1>>, sh - 1)
               up == BLess(half, r) \/ (r = half /\ q[1] % 2 = 1)
               q1 == IF up THEN BAdd(q, <<1>>) ELSE q
           IN IF BitLen(q1) > Precision
                THEN [s |-> 1, m |-> Shr(q1, 1), e |-> e + sh + 1]
                ELSE [s |-> 1, m |-> q1, e |-> e + sh]

\* the greatest double that is at most m * 2^e
RoundDown(m, e) ==
  IF m = <<>> THEN FZero
  ELSE LET len == BitLen(m) IN
    IF len <= Precision
      THEN [s |-> 1, m |-> Shl(m, Precision - len), e |-> e - (Precision - len)]
      ELSE [s |-> 1, m |-> Shr(m, len - Precision), e |-> e + (len - Precision)]

\* the least double that is at least m * 2^e
RoundUp(m, e) ==
  LET d == RoundDown(m, e) IN
    IF m = <<>> \/ Shl(d.m, d.e - e) = m THEN d
    ELSE LET q1 == BAdd(d.m, <<1>>)
         IN IF BitLen(q1) > Precision
              THEN [s |-> 1, m |-> Shr(q1, 1), e |-> d.e + 1]
              ELSE [s |-> 1, m |-> q1, e |-> d.e]

\* float(c) for an int 0 <= c < Base
FInt(c) == RoundTo(BNorm(<<c>>), 0)

\* x + y
FAdd(x, y) ==
  IF x.m = <<>> THEN y
  ELSE IF y.m = <<>> THEN x
  ELSE LET e0 == IF x.e < y.e THEN x.e ELSE y.e
       IN RoundTo(BAdd(Shl(x.m, x.e - e0), Shl(y.m, y.e - e0)), e0)

\* x - y, for x >= y
FSub(x, y) ==
  IF y.m = <<>> THEN x
  ELSE LET e0 == IF x.e < y.e THEN x.e ELSE y.e
       IN RoundTo(BSub(Shl(x.m, x.e - e0), Shl(y.m, y.e - e0)), e0)

\* x * y
FMul(x, y) == RoundTo(BMul(x.m, y.m), x.e + y.e)

\* x ** e for a double x >= 0 and an int e >= 0: the doubles the call may
\* return.  float_pow returns 1.0 for e = 0 and otherwise the value of the C
\* library's pow(x, float(e)), which is not correctly rounded: it is the
\* exact power when that is a double, and otherwise one of the two doubles
\* next to it, whichever the library in use computes.
FPow(x, e) ==
  IF e = 0 THEN {FInt(1)}
  ELSE {RoundDown(BPow(x.m, e), e * x.e), RoundUp(BPow(x.m, e), e * x.e)}

\* x ** e where pow has returned the values of memo before: pow is a
\* function, the same arguments give the same value again
PowAgain(memo, x, e) ==
  IF \E c \in memo : c.x = x /\ c.e = e
    THEN {c.r : c \in {d \in memo : d.x = x /\ d.e = e}}
    ELSE FPow(x, e)

\* |x| < |y|
FMagLess(x, y) ==
  IF y.m = <<>> THEN FALSE
  ELSE IF x.m = <<>> THEN TRUE
  ELSE IF x.e # y.e THEN x.e < y.e ELSE BLess(x.m, y.m)

\* x <= y
FLe(x, y) ==
  IF x.s # y.s THEN x.s < y.s \/ (x.m = <<>> /\ y.m = <<>>)
  ELSE IF x.s = 1 THEN ~FMagLess(y, x) ELSE ~FMagLess(x, y)

\* ------------------------------------- approximate_block_error in binary64
Double(sg, mant, ex) == [s |-> sg, m |-> mant, e |-> ex]

\* -0.5, 0.5, 1.0, 1.5
DNegHalf == Double(-1, <<0, 0, 0, 128>>, -53)
DHalf == Double(1, <<0, 0, 0, 128>>, -53)
DOne == Double(1, <<0, 0, 0, 128>>, -52)
DOneAndHalf == Double(1, <<0, 0, 0, 192>>, -52)
\* 0x1.fd9b50c34fb34p-3 = 0.2488313970188415 and the next double above it,
\* 0x1.fd9b50c34fb35p-3 = 0.24883139701884152
DA == Double(1, <<31540, 6249, 26324, 254>>, -55)
DANext == Double(1, <<31541, 6249, 26324, 254>>, -55)
\* 0x1.3b943e5633c71p-1 = 0.6163653831698764 and the next double above it,
\* 0x1.3b943e5633c72p-1 = 0.6163653831698765
DB == Double(1, <<15473, 19142, 25871, 157>>, -53)
DBNext == Double(1, <<15474, 19142, 25871, 157>>, -53)
\* 0x1.f758e0f561194p-2 = 0.491549983002437
DC == Double(1, <<4500, 7852, 22072, 251>>, -54)

\* the values of p that are tried
FPValues == {DNegHalf, FZero, DA, DANext, DC, DHalf, DB, DBNext, DOne, DOneAndHalf}

\* 0.0 <= p <= 1.0
FValidP(x) == FLe(FZero, x) /\ FLe(x, FInt(1))

\* p / 2.0 (exact: the exponent drops by one)
FHalf(x) == IF x.m = <<>> THEN x ELSE [x EXCEPT !.e = @ - 1]

\* math.comb(n, k) * (p_xz ** k) * ((1 - p_xz) ** (n - k)), left to right,
\* where p_xz ** k returned a and (1 - p_xz) ** (n - k) returned b
Fterm(nn, kk, a, b) == FMul(FMul(FInt(comb(nn, kk)), a), b)

\* libm: the values pow returned during the call, as [x, e, r] for
\* pow(x, e) = r
FNoPrev == [p |-> FZero, status |-> "none", result |-> FZero, libm |-> {}]

FIdleFrame == [n |-> 0, t |-> 0, p |-> FZero, p_xz |-> FZero, k |-> 0,
               tail |-> FZero, pc |-> "idle", result |-> FZero, libm |-> {},
               prev |-> FNoPrev]

\* the argument check and the locals before the loop
FValidate ==
  /\ fl.pc = "start"
  /\ IF ~FValidP(fl.p)
       THEN fl' = [fl EXCEPT !.pc = "raised"]
       ELSE fl' = [fl EXCEPT !.p_xz = FHalf(fl.p),
                             !.tail = FZero,
                             !.k = range_first(fl.t),
                             !.pc = "loop"]
  /\ UNCHANGED <<avars, mvars>>

\* one iteration of "for k in range(t + 1, n + 1): tail += ..."
FLoopStep ==
  /\ fl.pc = "loop" /\ fl.k <= fl.n
  /\ LET one_minus == FSub(FInt(1), fl.p_xz)
         seen == fl.libm \cup fl.prev.libm
     IN \E a \in PowAgain(seen, fl.p_xz, fl.k) :
          LET ca == [x |-> fl.p_xz, e |-> fl.k, r |-> a]
          IN \E b \in PowAgain(seen \cup {ca}, one_minus, fl.n - fl.k) :
               LET cb == [x |-> one_minus, e |-> fl.n - fl.k, r |-> b]
               IN fl' = [fl EXCEPT !.tail = FAdd(fl.tail, Fterm(fl.n, fl.k, a, b)),
                                   !.libm = @ \cup {ca, cb},
                                   !.k = fl.k + 1]
  /\ UNCHANGED <<avars, mvars>>

\* the range is exhausted: return 2 * tail
FReturn ==
  /\ fl.pc = "loop" /\ fl.k > fl.n
  /\ fl' = [fl EXCEPT !.result = FMul(FInt(2), fl.tail), !.pc = "done"]
  /\ UNCHANGED <<avars, mvars>>

\* the caller calls again with the same n, t and another p
\* (demo: "for p in p_values"); the frame is fresh
FCallAgain ==
  /\ fl.pc \in {"done", "raised"}
  /\ \E x \in FPValues :
       fl' = [FIdleFrame EXCEPT
                !.n = fl.n, !.t = fl.t, !.p = x, !.pc = "start",
                !.prev = [p |-> fl.p, status |-> fl.pc, result |-> fl.result,
                          libm |-> fl.libm]]
  /\ UNCHANGED <<avars, mvars>>

\* ------------------------------------------------------- specifications
\* random.random() calls of a call with these arguments
Draws(nn, tr) == IF tr > 0 THEN 2 * nn * tr ELSE 0

InitA ==
  /\ fn \in Functions
  /\ n \in 0..MaxN
  /\ t \in 0..(MaxN + 1)
  /\ p \in PValues
  /\ p_xz = 0 /\ k = 0 /\ tail = 0 /\ result = 0
  /\ pc = "start"
  /\ prev = NoPrev
  /\ mc = [w \in Workers |-> IdleFrame]
  /\ stream = <<>>
  /\ log = [w \in Workers |-> <<>>]
  /\ fl = FIdleFrame

NextA == Validate \/ LoopStep \/ Return \/ BlockError \/ CallAgain

\* the analytic estimators, called repeatedly
Spec == InitA /\ [][NextA]_vars

\* one call alone, with any arguments
InitAlone ==
  \E nn \in 0..MCMaxN, tt \in 0..MCMaxN, pp \in PValues, tr \in -1..MaxTrials :
    /\ Draws(nn, tr) <= MaxDraws
    /\ mc = [w \in Workers |-> IF w = 1 THEN Frame(nn, tt, pp, tr) ELSE IdleFrame]

\* two calls, with valid arguments, started from the same generator state
InitTwo ==
  \E n1 \in 1..MCMaxN, n2 \in 1..MCMaxN, t1 \in {0, 1}, t2 \in {0, 1},
     tr1 \in 1..MaxTrials, tr2 \in 1..MaxTrials :
    /\ Draws(n1, tr1) + Draws(n2, tr2) <= MaxDrawsTwo
    /\ mc = [w \in Workers |->
               IF w = 1 THEN Frame(n1, t1, Unit, tr1) ELSE Frame(n2, t2, Unit, tr2)]

InitMC ==
  /\ fn = "approximate_block_error"
  /\ n = 0 /\ t = 0 /\ p = 0
  /\ p_xz = 0 /\ k = 0 /\ tail = 0 /\ result = 0
  /\ pc = "idle"
  /\ prev = NoPrev
  /\ stream = <<>>
  /\ log = [w \in Workers |-> <<>>]
  /\ fl = FIdleFrame
  /\ (InitAlone \/ InitTwo)

NextMC ==
  \E w \in Workers :
    \/ MCStart(w)
    \/ MCFor(w)
    \/ MCDrawX(w)
    \/ MCEndX(w)
    \/ MCDrawZ(w)
    \/ MCIf(w)
    \/ MCReturn(w)

\* monte_carlo_block_error calls over the module-level generator
SpecMC == InitMC /\ [][NextMC]_vars

InitF ==
  /\ fn = "approximate_block_error"
  /\ n = 0 /\ t = 0 /\ p = 0
  /\ p_xz = 0 /\ k = 0 /\ tail = 0 /\ result = 0
  /\ pc = "idle"
  /\ prev = NoPrev
  /\ mc = [w \in Workers |-> IdleFrame]
  /\ stream = <<>>
  /\ log = [w \in Workers |-> <<>>]
  /\ \E nn \in 0..MaxN, tt \in 0..MaxN, x \in FPValues :
       fl = [FIdleFrame EXCEPT !.n = nn, !.t = tt, !.p = x, !.pc = "start"]

NextF == FValidate \/ FLoopStep \/ FReturn \/ FCallAgain

\* approximate_block_error in binary64, called repeatedly
SpecFloat == InitF /\ [][NextF]_vars


\* --------------------------------------------------- reference values
\* The weight of the outcomes of nn independent error events, each of
\* probability q / Unit, whose number of errors lies in lo+1 .. hi: the walk
\* over all 2^nn outcomes, from qubit i+1 on, with cnt errors so far.
RECURSIVE BinomialWeight(_, _, _, _, _, _)
BinomialWeight(nn, q, lo, hi, i, cnt) ==
  IF i >= nn
    THEN (IF lo < cnt /\ cnt <= hi THEN 1 ELSE 0)
    ELSE q * BinomialWeight(nn, q, lo, hi, i + 1, cnt + 1)
         + (Unit - q) * BinomialWeight(nn, q, lo, hi, i + 1, cnt)

\* P(lo < Binomial(nn, q / Unit) <= hi), on the scale of Scale(nn)
BinomialTail(nn, q, lo, hi) == BinomialWeight(nn, q, lo, hi, 0, 0)

\* The weight of the draw sequences of one repetition of the sampler (nn draws
\* for X, then nn for Z, each uniform over the grid 0 .. Unit-1) that the
\* sampler counts as a failure; e of the Unit grid values give an error.
RECURSIVE TrialWeight(_, _, _, _, _, _)
TrialWeight(nn, tt, e, i, x, z) ==
  IF i >= 2 * nn
    THEN (IF trial_failure(x, z, tt) THEN 1 ELSE 0)
    ELSE IF i < nn
      THEN e * TrialWeight(nn, tt, e, i + 1, x + 1, z)
           + (Unit - e) * TrialWeight(nn, tt, e, i + 1, x, z)
      ELSE e * TrialWeight(nn, tt, e, i + 1, x, z + 1)
           + (Unit - e) * TrialWeight(nn, tt, e, i + 1, x, z)

\* P(one repetition of monte_carlo_block_error(nn, tt, pp, _) fails), on the
\* scale of Scale(2 * nn)
SamplerFailure(nn, tt, pp) ==
  TrialWeight(nn, tt, Cardinality({u \in 0..(Unit - 1) : bernoulli(u, Half(pp))}), 0, 0, 0)

Abs(x) == IF x < 0 THEN -x ELSE x

\* ------------------------------------------------------------ the claims
\* C1: the analytic estimators return exactly twice the binomial tail
\* P(Binomial(n, p/2) > t): while approximate_block_error loops, tail holds
\* exactly the terms for t < k' < k (none for k' <= t, none for k' > n), and
\* both functions return 2 * P(t < Binomial(n, p/2) <= n).
C1_TwiceBinomialTail ==
  /\ pc = "loop" =>
       /\ t + 1 <= k
       /\ (k <= n + 1 \/ k = t + 1)
       /\ tail = BinomialTail(n, p \div 2, t, k - 1)
  /\ pc = "done" => result = 2 * BinomialTail(n, p \div 2, t, n)

C1_Witness ==
  /\ pc = "done" /\ n = MaxN /\ t = 1
  /\ 0 < p /\ p < Unit
  /\ result > 0

\* C3 as stated: the value approximate_block_error returns is in [0, 1].
C3_InUnitInterval ==
  (fn = "approximate_block_error" /\ pc = "done")
    => (0 <= result /\ result <= Scale(n))

\* C3 amended: the value approximate_block_error returns is in [0, 2]: it is
\* twice a probability.
C3_InZeroTwo ==
  (fn = "approximate_block_error" /\ pc = "done")
    => (0 <= result /\ result <= 2 * Scale(n))

C3_Witness ==
  /\ fn = "approximate_block_error" /\ pc = "done"
  /\ t <= n
  /\ result > Scale(n)

\* C4: approximate_block_error raises exactly when p is outside [0.0, 1.0],
\* and then before the loop is entered (no term was added, k was never set).
C4_RejectsInvalidP ==
  (fn = "approximate_block_error" /\ pc \in {"loop", "done", "raised"}) =>
    /\ (pc = "raised") <=> (p < 0 \/ p > Unit)
    /\ pc = "raised" => (k = 0 /\ tail = 0 /\ result = 0)

C4_Witness ==
  /\ fn = "approximate_block_error" /\ pc = "raised" /\ p < 0 /\ n > 0 /\ t < n

\* C7 as stated: the sampler's exact per-repetition failure probability is
\* within 0.02 of the value approximate_block_error returns.
C7_Within002 ==
  (fn = "approximate_block_error" /\ pc = "done" /\ t <= n) =>
    Abs(SamplerFailure(n, t, p) - result * Scale(n)) <= Scale(2 * n) \div 50

\* C7 amended: with tail = result / 2, the sampler's exact per-repetition
\* failure probability is 2 * tail - tail^2; it differs from the analytic
\* value by exactly tail^2 and never exceeds it.
C7_UnionOfChannels ==
  (fn = "approximate_block_error" /\ pc = "done" /\ t <= n) =>
    /\ 4 * SamplerFailure(n, t, p) = 4 * result * Scale(n) - result * result
    /\ SamplerFailure(n, t, p) <= result * Scale(n)

C7_Witness ==
  /\ fn = "approximate_block_error" /\ pc = "done" /\ t < n
  /\ 0 < p
  /\ Abs(SamplerFailure(n, t, p) - result * Scale(n)) > Scale(2 * n) \div 50

\* C8 in exact arithmetic: of two completed calls of approximate_block_error
\* with the same n and t, the one with the larger p has the larger real
\* value (checked under Spec).
ExactMonotone ==
  (fn = "approximate_block_error" /\ pc = "done" /\ prev.status = "done") =>
    /\ prev.p <= p => prev.result <= result
    /\ p <= prev.p => result <= prev.result

\* C8: for fixed n and t, approximate_block_error is non-decreasing in p over
\* [0, 1]: of two completed calls, the one with the larger p returns at
\* least as much (on the doubles the code returns, under SpecFloat).
C8_Monotone ==
  (fl.pc = "done" /\ fl.prev.status = "done") =>
    /\ FLe(fl.prev.p, fl.p) => FLe(fl.prev.result, fl.result)
    /\ FLe(fl.p, fl.prev.p) => FLe(fl.result, fl.prev.result)

\* C9: whenever t >= n and p is in [0, 1], the analytic estimators return
\* exactly 0.0, and the loop of approximate_block_error adds no term.
C9_ZeroWhenTAtLeastN ==
  (t >= n /\ 0 <= p /\ p <= Unit) =>
    /\ pc = "done" => result = 0
    /\ pc = "loop" => (tail = 0 /\ k = t + 1)

C9_Witness ==
  /\ pc = "done" /\ t = n /\ n > 0 /\ p = Unit /\ result = 0

\* errors among the nn draws of l that follow the first base ones, for rate pp
ErrorsIn(l, base, nn, pp) ==
  Cardinality({j \in 1..nn : 2 * l[base + j] < pp})

\* repetitions of a call that fail, read off the draws l it consumed
FailingRepetitions(l, nn, tt, pp, tr) ==
  Cardinality({r \in 1..tr :
     \/ ErrorsIn(l, (r - 1) * 2 * nn, nn, pp) > tt
     \/ ErrorsIn(l, (r - 1) * 2 * nn + nn, nn, pp) > tt})

\* C2: monte_carlo_block_error runs exactly `trials` repetitions, each drawing
\* n values for X and then n for Z; a repetition counts as a failure iff
\* x_errors > t or z_errors > t; the value returned is failures / trials; and
\* failures never exceeds the repetitions completed.
C2_CountsFailingRepetitions ==
  \A w \in Workers :
    LET f == mc[w] IN
    /\ f.pc \in {"for", "x", "z", "done"} =>
         /\ f.failures <= f.rep
         /\ f.rep <= f.trials
         /\ f.failures = FailingRepetitions(log[w], f.n, f.t, f.p, f.rep)
    /\ f.pc = "for" => Len(log[w]) = 2 * f.n * f.rep
    /\ f.pc = "x" => Len(log[w]) = 2 * f.n * f.rep + f.i
    /\ f.pc = "z" => Len(log[w]) = 2 * f.n * f.rep + f.n + f.i
    /\ f.pc = "done" =>
         /\ f.rep = f.trials
         /\ Len(log[w]) = 2 * f.n * f.trials
         /\ f.ret = <<FailingRepetitions(log[w], f.n, f.t, f.p, f.trials), f.trials>>

C2_Witness ==
  /\ mc[2].pc = "idle"
  /\ mc[1].pc = "done" /\ mc[1].n = 2 /\ mc[1].t = 1 /\ mc[1].trials = 2
  /\ mc[1].ret = <<1, 2>>

\* C5: monte_carlo_block_error raises exactly when trials <= 0, before it
\* has consumed a draw and before the division.
C5_RejectsBadTrials ==
  \A w \in Workers :
    mc[w].pc \notin {"idle", "start"} =>
      /\ (mc[w].pc = "raised") <=> (mc[w].trials <= 0)
      /\ mc[w].pc = "raised" =>
           (log[w] = <<>> /\ stream = <<>> /\ mc[w].ret = <<0, 1>>)

C5_Witness ==
  mc[1].pc = "raised" /\ mc[1].trials = 0 /\ mc[1].n > 0

\* C6 as stated: monte_carlo_block_error called with p outside [0.0, 1.0] and
\* trials >= 1 is rejected, with no draw consumed and no result returned.
C6_RejectsInvalidP ==
  \A w \in Workers :
    (mc[w].pc \notin {"idle", "start"} /\ mc[w].trials >= 1
       /\ (mc[w].p < 0 \/ mc[w].p > Unit)) =>
      (mc[w].pc = "raised" /\ log[w] = <<>>)

\* C10 as stated: the draws a call consumes are those it would consume alone
\* from the same starting generator state, i.e. the first values of the stream.
C10_DrawsAsIfAlone ==
  \A w \in Workers :
    \A j \in 1..Len(log[w]) : log[w][j] = stream[j]

====
